---- MODULE Spec2Model ----
(***************************************************************************)
(* Model of the AudioAnalyzer component (src/src/components/                *)
(* AudioAnalyzer.tsx): the result list frequencyData, the busy flag, the    *)
(* configuration snapshot, the shared abort-controller ref and the          *)
(* handleUpload invocations in flight, each split at its awaits.            *)
(*                                                                         *)
(* Encodings.  A file name is a sequence <<base, n1, ..., nk>> standing for *)
(* the string base【n1】...【nk】, where base has no trailing 【digits】.        *)
(* An optional value (undefined | v) is the sequence <<>> | <<v>>.          *)
(* req is the list of the handleUpload invocations in flight, oldest       *)
(* first.  An AbortController is identified with the invocation that        *)
(* created it: abortControllerRef is that invocation's position in req,     *)
(* and 0 stands for null.                                                   *)
(*                                                                         *)
(* The chart components FrequencyChart (src/unnamed/part_002) and           *)
(* DynamicsChart (src/src/components/DynamicsChart.tsx) are modelled by the *)
(* option their data effect gives to setOption; ChartSpec runs them on the  *)
(* lists uploads leave in frequencyData.  FairSpec adds the fairness of     *)
(* the awaits and follows one invocation from its start to its end.         *)
(***************************************************************************)
EXTENDS Integers, Sequences, FiniteSets, TLC

VARIABLES frequencyData, analyzing, progress, config, configPc,
          abortControllerRef, req, last, cancelled, changedSinceDrop,
          frequencyOption, dynamicsOption, watched, stale

\* The options the two chart components last gave to setOption.
chartVars == <<frequencyOption, dynamicsOption>>

vars == <<frequencyData, analyzing, progress, config, configPc,
          abortControllerRef, req, last, cancelled, changedSinceDrop,
          frequencyOption, dynamicsOption, watched, stale>>

\* ---------------------------------------------------------------- bounds
\* MaxLoad bounds the entries held plus the invocations in flight.
MaxLoad == 3

\* ------------------------------------------------------ program constants
MaxSizeBytes == 104857600

Undefined == <<>>
Null == 0

SUPPORTED_AUDIO_TYPES ==
  {"audio/wav", "audio/mp3", "audio/mpeg", "audio/ogg", "audio/flac",
   "audio/aac", "audio/m4a"}

\* ----------------------------------------------------------------- inputs
\* Analysis payloads a backend can answer with (frequencies, magnitudes,
\* optional dynamics).
D1 == [frequencies |-> <<20, 40>>, magnitudes |-> <<0, 3>>, dynamics |-> Undefined]
D2 == [frequencies |-> <<20, 40>>, magnitudes |-> <<0, 5>>,
       dynamics |-> <<[overall_range |-> 6]>>]
DataSet == {D1, D2}

\* Files a user can drop on the Dragger.
FileA == [name |-> <<"a">>, type |-> "audio/wav", size |-> 1024]
FileBig == [name |-> <<"a", 1>>, type |-> "audio/mpeg", size |-> MaxSizeBytes + 1]
FileTxt == [name |-> <<"b">>, type |-> "text/plain", size |-> 1024]
Files == {FileA, FileBig, FileTxt}

SeqsUpTo(S, n) == UNION {[1 .. k -> S] : k \in 0 .. n}

\* The max_files values a backend answers /config with.
ConfigMaxFiles == {1, 2}

\* The drops: up to one file more than the largest max_files.
FileLists == SeqsUpTo(Files, Cardinality(ConfigMaxFiles) + 1) \ {<<>>}

ConfigResults ==
  {[status |-> "success",
    data |-> [audio |-> [max_files |-> m, max_duration |-> 60]]]
     : m \in ConfigMaxFiles}
  \cup {[status |-> "error",
         data |-> [audio |-> [max_files |-> 1, max_duration |-> 60]]]}

PartialItems == {[filename |-> <<"a">>, data |-> D1], [filename |-> <<"b">>, data |-> D2]}
PartialErrors == {[filename |-> <<"c">>, message |-> "too long"]}

Bodies ==
  {[status |-> s, data |-> d, results |-> <<>>, errors |-> <<>>]
     : s \in {"success", "error"}, d \in {Undefined} \cup {<<x>> : x \in DataSet}}
  \cup
  {[status |-> "partial", data |-> Undefined, results |-> rs, errors |-> es]
     : rs \in SeqsUpTo(PartialItems, Cardinality(PartialItems)),
       es \in SeqsUpTo(PartialErrors, Cardinality(PartialItems))}

\* ------------------------------------------------------- pure functions
\* name.replace(/【\d+】$/, '')
stripNumber(name) ==
  IF Len(name) > 1 THEN SubSeq(name, 1, Len(name) - 1) ELSE name

\* JSON.stringify({frequencies, magnitudes, dynamics}): an undefined
\* dynamics is left out of the text.
stringify(d) ==
  <<"frequencies", d.frequencies, "magnitudes", d.magnitudes>>
    \o (IF d.dynamics = Undefined THEN <<>> ELSE <<"dynamics", d.dynamics>>)

\* A comparison that looks at the frequencies alone.
isDataEqualFrequencies(data1, data2) == data1.frequencies = data2.frequencies

isDataEqual(data1, data2) == stringify(data1) = stringify(data2)

\* A loop that numbers baseName as it is, without stripping its number.
generateLoopUnstripped(baseName, existingNames, newName, counter) ==
  IF newName \in existingNames
    THEN CHOOSE n \in {Append(baseName, k) : k \in 1 .. Cardinality(existingNames) + 1} :
           n \notin existingNames
    ELSE newName

\* The while loop of generateFileName, newName and counter being its locals.
RECURSIVE generateLoop(_, _, _, _)
generateLoop(baseName, existingNames, newName, counter) ==
  IF newName \in existingNames
    THEN generateLoop(baseName, existingNames,
                      Append(stripNumber(baseName), counter), counter + 1)
    ELSE newName

generateFileName(baseName, existingNames) ==
  generateLoop(baseName, existingNames, baseName, 1)

Names(prev) == {prev[i].name : i \in 1 .. Len(prev)}

\* prev.findIndex(item => item.name.replace(/【\d+】$/, '') === fileName);
\* 0 stands for the code's -1.
findIndex(prev, fileName) ==
  LET hits == {i \in 1 .. Len(prev) : stripNumber(prev[i].name) = fileName}
  IN IF hits = {} THEN 0 ELSE CHOOSE i \in hits : \A j \in hits : i <= j

Entry(name, d) ==
  [name |-> name, frequencies |-> d.frequencies, magnitudes |-> d.magnitudes,
   dynamics |-> d.dynamics]

\* The setFrequencyData updater of the single-file branch.
successUpdater(prev, fileName, d) ==
  LET newData == Entry(fileName, d)
      existingIndex == findIndex(prev, fileName)
  IN IF existingIndex = 0
       THEN Append(prev, newData)
       ELSE IF isDataEqual(prev[existingIndex], newData)
              THEN [prev EXCEPT ![existingIndex] = newData]
              ELSE Append(prev, Entry(generateFileName(fileName, Names(prev)), d))

\* A partial branch that keeps the first item only.
partialUpdaterFirst(prev, results) ==
  IF results = <<>> THEN prev
  ELSE Append(prev, Entry(Head(results).filename, Head(results).data))

\* The results?.forEach of the partial branch: one append per item.
RECURSIVE partialUpdater(_, _)
partialUpdater(prev, results) ==
  IF results = <<>> THEN prev
  ELSE partialUpdater(Append(prev, Entry(Head(results).filename, Head(results).data)),
                      Tail(results))

Msg(level, about) == [level |-> level, about |-> about]

partialMessages(body) ==
  [i \in 1 .. Len(body.errors) |-> Msg("error", body.errors[i].filename)]
    \o [i \in 1 .. Len(body.results) |-> Msg("success", body.results[i].filename)]

\* An admission check that looks at the type alone.
beforeUploadTypeOnly(file, fileList) == file.type \in SUPPORTED_AUDIO_TYPES

beforeUpload(file, fileList) ==
  IF config # Undefined /\ Len(fileList) > config[1].audio.max_files
    THEN FALSE
    ELSE file.type \in SUPPORTED_AUDIO_TYPES

\* message.error of beforeUpload: what it reports for a file it turns away.
beforeUploadErrors(file, fileList) ==
  IF config # Undefined /\ Len(fileList) > config[1].audio.max_files
    THEN <<Msg("error", <<"max_files">>)>>
    ELSE IF file.type \notin SUPPORTED_AUDIO_TYPES
           THEN <<Msg("error", <<"type">>)>>
           ELSE <<>>

\* ----------------------------------------------------------- FrequencyChart
\* Frequencies are in Hz and magnitudes in dB, as integers.
Max(a, b) == IF a >= b THEN a ELSE b

\* data.filter(item => frequencies.length > 0 && magnitudes.length > 0 &&
\*                     frequencies.length === magnitudes.length)
validData(data) ==
  SelectSeq(data, LAMBDA item :
    /\ Len(item.frequencies) > 0
    /\ Len(item.magnitudes) > 0
    /\ Len(item.frequencies) = Len(item.magnitudes))

\* item.frequencies.map((freq, index) => ({freq, mag})).sort(by freq)
dataPoints(item) ==
  SortSeq([i \in 1 .. Len(item.frequencies) |->
             [freq |-> item.frequencies[i], mag |-> item.magnitudes[i]]],
          LAMBDA a, b : a.freq < b.freq)

freqBands ==
  <<[min |-> 20, max |-> 100, points |-> 200],
    [min |-> 100, max |-> 1000, points |-> 300],
    [min |-> 1000, max |-> 10000, points |-> 200],
    [min |-> 10000, max |-> 20000, points |-> 100]>>

\* The body of freqBands.forEach: the points of the band, every step-th one.
sampleBand(points, band) ==
  LET bandPoints == SelectSeq(points, LAMBDA p : p.freq >= band.min /\ p.freq <= band.max)
      step == Max(1, Len(bandPoints) \div band.points)
  IN IF Len(bandPoints) = 0 THEN <<>>
     ELSE [j \in 1 .. ((Len(bandPoints) - 1) \div step) + 1 |->
             <<bandPoints[(j - 1) * step + 1].freq, bandPoints[(j - 1) * step + 1].mag>>]

sampledData(item) ==
  LET points == dataPoints(item)
  IN sampleBand(points, freqBands[1]) \o sampleBand(points, freqBands[2])
       \o sampleBand(points, freqBands[3]) \o sampleBand(points, freqBands[4])

\* The chart before its first effect has run.
NotMounted == [kind |-> "none", series |-> <<>>, legend |-> <<>>]

\* The data effect of FrequencyChart: the option it gives to setOption.  With
\* no valid dataset it returns and the chart keeps the option it had (prev);
\* the console.log of a series reads sampledData[0][0], which throws when no
\* point of the dataset lies in a band.
FrequencyChart(data, prev) ==
  LET valid == validData(data)
  IN IF Len(data) = 0
       THEN [kind |-> "empty", series |-> <<>>, legend |-> <<>>]
     ELSE IF Len(valid) = 0
       THEN prev
     ELSE IF \E k \in 1 .. Len(valid) : sampledData(valid[k]) = <<>>
       THEN [kind |-> "threw", series |-> <<>>, legend |-> <<>>]
     ELSE [kind |-> "option",
           series |-> [k \in 1 .. Len(valid) |->
                         [name |-> valid[k].name, data |-> sampledData(valid[k])]],
           legend |-> [k \in 1 .. Len(valid) |-> valid[k].name]]

\* ------------------------------------------------------------ DynamicsChart
\* The data prop AudioAnalyzer gives to DynamicsChart:
\* frequencyData.filter(item => item.dynamics).map(item => ({name, dynamics}))
DynamicsProps(fd) ==
  LET withDynamics == SelectSeq(fd, LAMBDA item : item.dynamics # Undefined)
  IN [k \in 1 .. Len(withDynamics) |->
        [name |-> withDynamics[k].name, dynamics |-> withDynamics[k].dynamics[1]]]

\* (dB).toFixed(1) of a whole number of dB, as a number of tenths of a dB.
dBToFixed1(range) == 10 * range

\* The `extra` of the dynamics Card: nothing while frequencyData is empty,
\* else the fast overall ranges that pass the filter
\* item => item.dynamics?.overall_dynamics?.fast?.range, which keeps an entry
\* when that number is truthy, joined in list order.
dynamicsExtra(fd) ==
  LET truthy(item) ==
        /\ item.dynamics # Undefined
        /\ item.dynamics[1].overall_dynamics.fast.range # 0
      kept == SelectSeq(fd, truthy)
  IN IF Len(fd) = 0 THEN Undefined
     ELSE <<[k \in 1 .. Len(kept) |->
               dBToFixed1(kept[k].dynamics[1].overall_dynamics.fast.range)]>>

\* (seconds).toFixed(1) of ms / 1000, as a number of tenths of a second.
toFixed1(ms) == (ms + 50) \div 100

\* A band series that leaves out the last band.
bandValuesShort(item, kind) ==
  LET bands == item.dynamics.band_dynamics
  IN [i \in 1 .. Len(bands) - 1 |->
        IF kind = "fast" THEN [value |-> bands[i].dynamic_range.fast]
        ELSE IF kind = "slow" THEN [value |-> bands[i].dynamic_range.slow]
        ELSE [name |-> bands[i].band,
              low |-> bands[i].percentiles.fast["10"],
              high |-> bands[i].percentiles.fast["90"]]]

\* fastData, slowData and percentileData of one item: band_dynamics.map(...)
bandValues(item, kind) ==
  LET bands == item.dynamics.band_dynamics
  IN [i \in 1 .. Len(bands) |->
        IF kind = "fast" THEN [value |-> bands[i].dynamic_range.fast]
        ELSE IF kind = "slow" THEN [value |-> bands[i].dynamic_range.slow]
        ELSE [name |-> bands[i].band,
              low |-> bands[i].percentiles.fast["10"],
              high |-> bands[i].percentiles.fast["90"]]]

\* data.forEach: three series are pushed per item (Fast bars, Slow bars, the
\* percentile error bars).
bandSeries(data) ==
  [j \in 1 .. 3 * Len(data) |->
     LET item == data[((j - 1) \div 3) + 1]
         kind == <<"fast", "slow", "percentile">>[((j - 1) % 3) + 1]
     IN [name |-> item.name,
         type |-> IF kind = "percentile" THEN "custom" ELSE "bar",
         kind |-> kind,
         data |-> bandValues(item, kind)]]

shortTermSeries(data) ==
  [k \in 1 .. Len(data) |->
     [name |-> data[k].name, type |-> "line",
      data |-> data[k].dynamics.short_term_dynamics.values]]

\* The data effect of DynamicsChart: the option it gives to setOption.  Both
\* category axes are built from data[0]; a series' value of index i is drawn
\* at category i of its axis.  timeAxis holds the labels in tenths of a second.
DynamicsChart(data) ==
  IF Len(data) = 0
    THEN [kind |-> "empty", bandAxis |-> <<>>, timeAxis |-> <<>>,
          bandSeries |-> <<>>, shortTermSeries |-> <<>>]
    ELSE LET first == data[1].dynamics
         IN [kind |-> "option",
             bandAxis |-> [i \in 1 .. Len(first.band_dynamics) |->
                             first.band_dynamics[i].band],
             timeAxis |-> [i \in 1 .. Len(first.short_term_dynamics.values) |->
                             toFixed1((i - 1) * first.short_term_dynamics.frame_duration_ms)],
             bandSeries |-> bandSeries(data),
             shortTermSeries |-> shortTermSeries(data)]

\* ------------------------------------------------------------------ state
\* req[r]: a handleUpload invocation in flight, suspended at the await pc
\* names: "fetch", "text" (response.text()) or "json" (response.json()).
NewRequest(file) == [pc |-> "fetch", file |-> file]

\* last: what the step just taken reported (the response it read, the
\* callbacks and the messages) when it ended an invocation; NoLast after any
\* other step.  Four history variables: cancelled, the files whose upload
\* has been cancelled; changedSinceDrop, frequencyData has changed since the
\* latest drop started its invocations; watched, the position in req of one
\* invocation that is followed from its start to its end (0: none), any one a
\* drop starts; stale, the number of invocations, the oldest ones of req,
\* that were in flight when handleClear ran.
NoBody == [status |-> "none", data |-> Undefined, results |-> <<>>, errors |-> <<>>]
NoLast == [outcome |-> "none", file |-> FileA,
           response |-> "none", body |-> NoBody,
           onSuccess |-> 0, onError |-> 0, msgs |-> <<>>]

InFlight == 1 .. Len(req)

Init ==
  /\ frequencyData = <<>>
  /\ analyzing = FALSE
  /\ progress = 0
  /\ config = Undefined
  /\ configPc = "pending"
  /\ abortControllerRef = Null
  /\ req = <<>>
  /\ last = NoLast
  /\ cancelled = {}
  /\ changedSinceDrop = FALSE
  /\ frequencyOption = FrequencyChart(<<>>, NotMounted)
  /\ dynamicsOption = DynamicsChart(<<>>)
  /\ watched = Null
  /\ stale = 0

\* --------------------------------------------------------- config effect
\* .then(result => { if (result.status === 'success') setConfig(result.data) })
ConfigResolve ==
  /\ configPc = "pending"
  /\ \E result \in ConfigResults :
       config' = IF result.status = "success" THEN <<result.data>> ELSE config
  /\ configPc' = "done"
  /\ last' = NoLast
  /\ UNCHANGED <<frequencyData, analyzing, progress, abortControllerRef, req,
                 cancelled, changedSinceDrop, chartVars, watched, stale>>

\* .catch(error => message.error('加载配置失败'))
ConfigReject ==
  /\ configPc = "pending"
  /\ configPc' = "done"
  /\ last' = NoLast
  /\ UNCHANGED <<frequencyData, analyzing, progress, config, abortControllerRef,
                 req, cancelled, changedSinceDrop, chartVars, watched, stale>>

\* ----------------------------------------------------------- handleUpload
\* A Dragger that is disabled while analyzing only.
DraggerDisabledAnalyzing == analyzing

\* A Dragger that is disabled until config is loaded only.
DraggerDisabledNoConfig == config = Undefined

DraggerDisabled == analyzing \/ config = Undefined

\* A drop of fileList on the Dragger: beforeUpload filters the files, then
\* customRequest (handleUpload) is called for every admitted file, one after
\* the other, each running up to its first await (the fetch): it sets
\* analyzing and puts a new AbortController in abortControllerRef.
Drop(fileList) ==
  LET accepted == SelectSeq(fileList, LAMBDA f : beforeUpload(f, fileList))
      k == Len(accepted)
  IN /\ ~DraggerDisabled
     /\ k > 0
     /\ Len(req) + k + Len(frequencyData) <= MaxLoad
     /\ analyzing' = TRUE
     /\ progress' = 0
     /\ req' = req \o [i \in 1 .. k |-> NewRequest(accepted[i])]
     /\ abortControllerRef' = Len(req) + k
     /\ last' = NoLast
     /\ changedSinceDrop' = FALSE
     /\ UNCHANGED <<frequencyData, config, configPc, cancelled, chartVars, watched, stale>>

\* MaxFollowed bounds the entries held plus the invocations in flight in the
\* runs in which an invocation is followed.
MaxFollowed == 2

\* The same drop, one of the invocations it starts being followed from now on
\* when none is.
DropWatch(fileList) ==
  LET accepted == SelectSeq(fileList, LAMBDA f : beforeUpload(f, fileList))
      k == Len(accepted)
  IN /\ ~DraggerDisabled
     /\ k > 0
     /\ Len(req) + k + Len(frequencyData) <= MaxFollowed
     /\ analyzing' = TRUE
     /\ progress' = 0
     /\ req' = req \o [i \in 1 .. k |-> NewRequest(accepted[i])]
     /\ abortControllerRef' = Len(req) + k
     /\ last' = NoLast
     /\ changedSinceDrop' = FALSE
     /\ watched' \in (IF watched = Null
                        THEN {Null} \cup (Len(req) + 1 .. Len(req) + k)
                        ELSE {watched})
     /\ UNCHANGED <<frequencyData, config, configPc, cancelled, chartVars, stale>>

Remove(s, r) == [i \in 1 .. Len(s) - 1 |-> IF i < r THEN s[i] ELSE s[i + 1]]

\* The place of the watched invocation once invocation r has left req.
Unwatch(r) ==
  IF watched = r THEN Null ELSE IF watched > r THEN watched - 1 ELSE watched

Changed == changedSinceDrop \/ frequencyData' # frequencyData

\* The step empties a list that held entries: only handleClear does.
Cleared == frequencyData # <<>> /\ frequencyData' = <<>>

\* stale after a step in which invocation r ends (0: none does): the
\* invocations still in flight after a clear are all stale; otherwise the
\* stale ones are those that were, less r.
StaleAfter(r) ==
  IF Cleared THEN Len(req')
  ELSE IF r # Null /\ r <= stale THEN stale - 1
  ELSE stale

\* A finally block that leaves analyzing set.
FinallyKeepsAnalyzing(r) ==
  /\ analyzing' = analyzing
  /\ progress' = 0
  /\ abortControllerRef' = Null
  /\ req' = Remove(req, r)
  /\ changedSinceDrop' = Changed
  /\ watched' = Unwatch(r)
  /\ stale' = StaleAfter(r)
  /\ UNCHANGED <<config, configPc, chartVars>>

\* The finally block; the invocation ends.
Finally(r) ==
  /\ analyzing' = FALSE
  /\ progress' = 0
  /\ abortControllerRef' = Null
  /\ req' = Remove(req, r)
  /\ changedSinceDrop' = Changed
  /\ watched' = Unwatch(r)
  /\ stale' = StaleAfter(r)
  /\ UNCHANGED <<config, configPc, chartVars>>

Report(r, outcome, response, body, nSuccess, nError, msgs) ==
  /\ last' = [outcome |-> outcome, file |-> req[r].file, response |-> response,
              body |-> body, onSuccess |-> nSuccess, onError |-> nError,
              msgs |-> msgs]
  /\ cancelled' = IF outcome = "aborted" THEN cancelled \cup {req[r].file}
                   ELSE cancelled

\* catch (error) for an error that is not an AbortError, then finally.
CatchError(r, response, body) ==
  /\ frequencyData' = frequencyData
  /\ Report(r, "failed", response, body, 0, 1, <<Msg("error", req[r].file.name)>>)
  /\ Finally(r)

\* A catch that treats the AbortError like any other error.
CatchAbortAsError(r) ==
  /\ Report(r, "aborted", "none", NoBody, 0, 1, <<Msg("error", req[r].file.name)>>)
  /\ Finally(r)

\* catch (error) for the AbortError an aborted signal rejects the pending
\* await with, then finally.
CatchAbort(r) ==
  /\ Report(r, "aborted", "none", NoBody, 0, 0, <<Msg("info", <<>>)>>)
  /\ Finally(r)

\* The fetch resolves with a response, ok or not.
FetchResolve(r) ==
  /\ r \in InFlight
  /\ req[r].pc = "fetch"
  /\ \E ok \in BOOLEAN :
       req' = [req EXCEPT ![r].pc = IF ok THEN "json" ELSE "text"]
  /\ last' = NoLast
  /\ UNCHANGED <<frequencyData, analyzing, progress, config, configPc,
                 abortControllerRef, cancelled, changedSinceDrop, chartVars, watched, stale>>

\* The fetch rejects (network failure).
FetchReject(r) ==
  /\ r \in InFlight
  /\ req[r].pc = "fetch"
  /\ CatchError(r, "rejected", NoBody)

\* A non-OK response that is answered by sending the request again.
TextResolveRetries(r) ==
  /\ r \in InFlight
  /\ req[r].pc = "text"
  /\ req' = [req EXCEPT ![r].pc = "fetch"]
  /\ last' = NoLast
  /\ UNCHANGED <<frequencyData, analyzing, progress, config, configPc,
                 abortControllerRef, cancelled, changedSinceDrop, chartVars, watched, stale>>

\* !response.ok: the text is read and thrown as an Error.
TextResolve(r) ==
  /\ r \in InFlight
  /\ req[r].pc = "text"
  /\ CatchError(r, "notok", NoBody)

\* response.json() rejects (the body is no JSON).
JsonReject(r) ==
  /\ r \in InFlight
  /\ req[r].pc = "json"
  /\ CatchError(r, "nojson", NoBody)

\* A result handler whose 'error' branch returns without calling onError.
ProcessResultSilentError(r, body) ==
  IF body.status = "error"
    THEN /\ frequencyData' = frequencyData
         /\ Report(r, "error", "body", body, 0, 0, <<Msg("error", <<>>)>>)
         /\ Finally(r)
  ELSE IF body.status = "partial"
    THEN /\ frequencyData' = partialUpdater(frequencyData, body.results)
         /\ Report(r, "partial", "body", body, 0, 0, partialMessages(body))
         /\ Finally(r)
  ELSE IF body.data = Undefined
    THEN CatchError(r, "body", body)
  ELSE /\ frequencyData' = successUpdater(frequencyData, req[r].file.name, body.data[1])
       /\ Report(r, "success", "body", body, 1, 0, <<Msg("success", req[r].file.name)>>)
       /\ Finally(r)

\* A result handler whose success path also ends in the catch block, as if
\* a statement after onSuccess had thrown.
ProcessResultSuccessThenError(r, body) ==
  IF body.status = "error"
    THEN /\ frequencyData' = frequencyData
         /\ Report(r, "error", "body", body, 0, 1, <<Msg("error", <<>>)>>)
         /\ Finally(r)
  ELSE IF body.status = "partial"
    THEN /\ frequencyData' = partialUpdater(frequencyData, body.results)
         /\ Report(r, "partial", "body", body, 0, 0, partialMessages(body))
         /\ Finally(r)
  ELSE IF body.data = Undefined
    THEN CatchError(r, "body", body)
  ELSE /\ frequencyData' = successUpdater(frequencyData, req[r].file.name, body.data[1])
       /\ Report(r, "success", "body", body, 1, 1, <<Msg("error", req[r].file.name)>>)
       /\ Finally(r)

\* The code after `const result = await response.json()`.
ProcessResult(r, body) ==
  IF body.status = "error"
    THEN /\ frequencyData' = frequencyData
         /\ Report(r, "error", "body", body, 0, 1, <<Msg("error", <<>>)>>)
         /\ Finally(r)
  ELSE IF body.status = "partial"
    THEN /\ frequencyData' = partialUpdater(frequencyData, body.results)
         /\ Report(r, "partial", "body", body, 0, 0, partialMessages(body))
         /\ Finally(r)
  ELSE IF body.data = Undefined
    THEN CatchError(r, "body", body)
  ELSE /\ frequencyData' = successUpdater(frequencyData, req[r].file.name, body.data[1])
       /\ Report(r, "success", "body", body, 1, 0, <<Msg("success", req[r].file.name)>>)
       /\ Finally(r)

JsonResolve(r) ==
  /\ r \in InFlight
  /\ req[r].pc = "json"
  /\ \E body \in Bodies :
       /\ ProcessResult(r, body)
       /\ Len(frequencyData') + Len(req') <= MaxLoad

\* ------------------------------------------------------------- UI handlers
\* if (abortControllerRef.current) { .abort(); abortControllerRef.current = null }
\* abort() rejects the await the invocation is suspended at, and its catch
\* and finally run before any other event is handled.
AbortCurrent ==
  IF abortControllerRef # Null
    THEN CatchAbort(abortControllerRef)
    ELSE /\ last' = NoLast
         /\ changedSinceDrop' = Changed
         /\ UNCHANGED <<analyzing, abortControllerRef, req, config, configPc,
                        cancelled, chartVars, watched>>
         /\ stale' = StaleAfter(Null)

\* The cancel button is rendered only while analyzing.
handleCancel ==
  /\ analyzing
  /\ frequencyData' = frequencyData
  /\ AbortCurrent
  /\ IF abortControllerRef # Null THEN TRUE ELSE progress' = progress

\* The clear button is rendered only with data and while not analyzing.
handleClear ==
  /\ Len(frequencyData) > 0
  /\ ~analyzing
  /\ frequencyData' = <<>>
  /\ AbortCurrent
  /\ IF abortControllerRef # Null THEN TRUE ELSE progress' = 0

Next ==
  \/ ConfigResolve
  \/ ConfigReject
  \/ \E fileList \in FileLists : Drop(fileList)
  \/ \E r \in 1 .. MaxLoad : FetchResolve(r)
  \/ \E r \in 1 .. MaxLoad : FetchReject(r)
  \/ \E r \in 1 .. MaxLoad : TextResolve(r)
  \/ \E r \in 1 .. MaxLoad : JsonReject(r)
  \/ \E r \in 1 .. MaxLoad : JsonResolve(r)
  \/ handleCancel
  \/ handleClear

Spec == Init /\ [][Next]_vars

\* A step of the invocation at position r: the await it is suspended at
\* settles.
RequestStep(r) ==
  FetchResolve(r) \/ FetchReject(r) \/ TextResolve(r) \/ JsonReject(r) \/ JsonResolve(r)

FairNext ==
  \/ ConfigResolve
  \/ ConfigReject
  \/ \E fileList \in FileLists : DropWatch(fileList)
  \/ \E r \in 1 .. MaxLoad : FetchResolve(r)
  \/ \E r \in 1 .. MaxLoad : FetchReject(r)
  \/ \E r \in 1 .. MaxLoad : TextResolve(r)
  \/ \E r \in 1 .. MaxLoad : JsonReject(r)
  \/ \E r \in 1 .. MaxLoad : JsonResolve(r)
  \/ handleCancel
  \/ handleClear

\* Every pending fetch, response.text() and response.json() settles.
FairSpec ==
  Init /\ [][FairNext]_vars /\ \A r \in 1 .. MaxLoad : WF_vars(RequestStep(r))

\* ------------------------------------------------------- the charts' runs
\* The analysis results of the backend: 31 one-third-octave bands in fixed
\* order, frames of 100 ms.
BandCount == 31
FrameDurationMs == 100

Percentiles(base) ==
  [rank \in {"10", "25", "50", "75", "90"} |->
     IF rank = "10" THEN base
     ELSE IF rank = "25" THEN base + 1
     ELSE IF rank = "50" THEN base + 2
     ELSE IF rank = "75" THEN base + 3
     ELSE base + 4]

\* The dynamics of analysis k of a recording of `frames` frames.
Dynamics(k, frames) ==
  [overall_dynamics |->
     [fast |-> [range |-> 4 * k, percentiles |-> Percentiles(k - 40)],
      slow |-> [range |-> 4, percentiles |-> Percentiles(k - 30)]],
   true_peak_level |-> 0 - k,
   crest_factor |-> 3 + k,
   band_dynamics |->
     [i \in 1 .. BandCount |->
        [band |-> i,
         dynamic_range |-> [fast |-> (i + k) % 7, slow |-> (i + k) % 5],
         percentiles |-> [fast |-> Percentiles(i - 60), slow |-> Percentiles(i - 50)]]],
   short_term_dynamics |->
     [frame_duration_ms |-> FrameDurationMs,
      values |-> [j \in 1 .. frames |-> (j + k) - 20]]]

\* A curve with a point on the edge between two sampling bands and points
\* outside 20 Hz - 20 kHz, one with neither, one dense enough to be thinned
\* out (200 points above 10 kHz), a dataset whose sequences differ in length,
\* and a curve that lies outside 20 Hz - 20 kHz altogether.
R1 == [frequencies |-> <<10, 20, 100, 200, 30000>>,
       magnitudes |-> <<0 - 9, 0, 0 - 3, 0 - 6, 0 - 30>>,
       dynamics |-> Undefined]
R2 == [frequencies |-> <<50, 150>>, magnitudes |-> <<0 - 1, 0 - 2>>,
       dynamics |-> <<Dynamics(0, 1)>>]
R3 == [frequencies |-> [i \in 1 .. 200 |-> 10000 + 10 * i],
       magnitudes |-> [i \in 1 .. 200 |-> 0 - (i % 9)],
       dynamics |-> <<Dynamics(1, 2)>>]
R4 == [frequencies |-> <<50, 150>>, magnitudes |-> <<0 - 1>>, dynamics |-> Undefined]
R5 == [frequencies |-> <<10, 30000>>, magnitudes |-> <<0 - 9, 0 - 30>>,
       dynamics |-> Undefined]
ChartResults == {R1, R2, R3, R4, R5}
ChartNames == {<<"a">>, <<"b">>}

\* MaxShown bounds the entries the charts are given.
MaxShown == 2

\* React runs the charts' data effects after the render that follows a
\* change of frequencyData.
ChartEffects ==
  /\ frequencyOption' = FrequencyChart(frequencyData', frequencyOption)
  /\ dynamicsOption' = DynamicsChart(DynamicsProps(frequencyData'))

ChartFrame ==
  /\ frequencyOption.kind # "threw"
  /\ last' = NoLast
  /\ UNCHANGED <<analyzing, progress, config, configPc, abortControllerRef, req,
                 cancelled, changedSinceDrop, watched, stale>>

\* What a successful single-file upload leaves behind.
ShowSuccess ==
  /\ Len(frequencyData) < MaxShown
  /\ \E fileName \in ChartNames, d \in ChartResults :
       frequencyData' = successUpdater(frequencyData, fileName, d)
  /\ ChartEffects
  /\ ChartFrame

\* What a 'partial' response with one result leaves behind.
ShowPartial ==
  /\ Len(frequencyData) < MaxShown
  /\ \E fileName \in ChartNames, d \in ChartResults :
       frequencyData' = partialUpdater(frequencyData, <<[filename |-> fileName, data |-> d]>>)
  /\ ChartEffects
  /\ ChartFrame

\* handleClear with nothing in flight.
ShowClear ==
  /\ Len(frequencyData) > 0
  /\ frequencyData' = <<>>
  /\ ChartEffects
  /\ ChartFrame

ChartNext == ShowSuccess \/ ShowPartial \/ ShowClear

\* The component once /config has answered, with nothing uploaded yet.
ChartInit ==
  /\ frequencyData = <<>>
  /\ analyzing = FALSE
  /\ progress = 0
  /\ config \in {<<result.data>> : result \in {c \in ConfigResults : c.status = "success"}}
  /\ configPc = "done"
  /\ abortControllerRef = Null
  /\ req = <<>>
  /\ last = NoLast
  /\ cancelled = {}
  /\ changedSinceDrop = FALSE
  /\ frequencyOption = FrequencyChart(<<>>, NotMounted)
  /\ dynamicsOption = DynamicsChart(<<>>)
  /\ watched = Null
  /\ stale = 0

ChartSpec == ChartInit /\ [][ChartNext]_vars

\* ----------------------------------------------------------------- claims
DataOf(e) ==
  [frequencies |-> e.frequencies, magnitudes |-> e.magnitudes, dynamics |-> e.dynamics]

\* The step ends invocation r and no other.
Ended(r) ==
  /\ r \in 1 .. Len(req)
  /\ req' = Remove(req, r)
  /\ \A t \in 1 .. Len(req) : t # r => req' # Remove(req, t)

\* C1: when one in-flight invocation ends (completes, fails or is
\* cancelled), every other in-flight invocation whose AbortController the
\* ref holds still has it there afterwards, so it stays cancellable.
C1_Independent ==
  [][\A r \in 1 .. Len(req) :
       Ended(r) =>
         \A s \in 1 .. Len(req) :
           (s # r /\ abortControllerRef = s)
             => abortControllerRef' = (IF s > r THEN s - 1 ELSE s)]_vars

\* C2: whenever requests are in flight, handleCancel aborts every one of
\* them: none is left in flight after it.
C2_CancelAbortsAll ==
  [][(Len(req) > 0 /\ handleCancel) => Len(req') = 0]_vars

\* C3: an invocation that observes the abort shows the cancellation notice,
\* calls neither onSuccess nor onError, and frequencyData is as it was when
\* the invocation started: the step does not change it, the aborted
\* invocation is the most recently started one, and the list has not changed
\* since that one started.
C3_CancelReports ==
  [][last'.outcome = "aborted" =>
       /\ last'.msgs = <<Msg("info", <<>>)>>
       /\ last'.onSuccess = 0
       /\ last'.onError = 0
       /\ frequencyData' = frequencyData
       /\ abortControllerRef = Len(req)
       /\ ~changedSinceDrop]_vars

C3_Witness ==
  /\ last.outcome = "aborted"
  /\ Len(frequencyData) > 0
  /\ Len(req) > 0

\* C4: after a cancellation the uploader accepts files again (analyzing is
\* false, the ref is cleared); every invocation a drop starts gets the
\* controller the ref then holds, with its request pending; and a success
\* for a file that had been cancelled leaves an entry with the complete
\* result, under the file's name, in frequencyData.
C4_Recoverable ==
  [][/\ last'.outcome = "aborted" =>
          (~analyzing' /\ config' # Undefined /\ abortControllerRef' = Null)
     /\ Len(req') > Len(req) =>
          /\ abortControllerRef' = Len(req')
          /\ \A i \in Len(req) + 1 .. Len(req') : req'[i].pc = "fetch"
          /\ ~analyzing
     /\ (last'.outcome = "success" /\ last'.file \in cancelled) =>
          \E i \in 1 .. Len(frequencyData') :
            /\ DataOf(frequencyData'[i]) = last'.body.data[1]
            /\ stripNumber(frequencyData'[i].name) = stripNumber(last'.file.name)]_vars

C4_Witness ==
  /\ last.outcome = "success"
  /\ last.file \in cancelled

\* C5 as stated: a non-OK response, a body with status 'error', or a body
\* without data leaves frequencyData unchanged, calls onError and does not
\* call onSuccess.
C5_FailureNoResult ==
  [][(\/ last'.response = "notok"
      \/ /\ last'.response = "body"
         /\ (last'.body.status = "error" \/ last'.body.data = Undefined))
       => /\ frequencyData' = frequencyData
          /\ last'.onError = 1
          /\ last'.onSuccess = 0]_vars

\* C5 amended: a non-OK response, a body with status 'error', or a body whose
\* status is not 'partial' and that carries no data leaves frequencyData
\* unchanged, calls onError once and does not call onSuccess.
C5_FailureNoResultAmended ==
  [][(\/ last'.response = "notok"
      \/ /\ last'.response = "body"
         /\ \/ last'.body.status = "error"
            \/ (last'.body.status # "partial" /\ last'.body.data = Undefined))
       => /\ frequencyData' = frequencyData
          /\ last'.onError = 1
          /\ last'.onSuccess = 0]_vars

C5_Witness ==
  /\ last.response = "body"
  /\ last.body.status = "success"
  /\ last.body.data = Undefined
  /\ Len(frequencyData) > 0

\* C6: for a 'partial' response every item of results is appended to
\* frequencyData, in order, with its filename and data, and every item of
\* errors is reported as an error message naming its file, however many
\* errors there are.
C6_PartialKeepsSiblings ==
  [][(last'.response = "body" /\ last'.body.status = "partial") =>
       LET rs == last'.body.results
           es == last'.body.errors
           n == Len(frequencyData)
       IN /\ Len(frequencyData') = n + Len(rs)
          /\ \A i \in 1 .. n : frequencyData'[i] = frequencyData[i]
          /\ \A i \in 1 .. Len(rs) :
               /\ frequencyData'[n + i].name = rs[i].filename
               /\ DataOf(frequencyData'[n + i]) = rs[i].data
          /\ {k \in 1 .. Len(last'.msgs) : last'.msgs[k].level = "error"} = 1 .. Len(es)
          /\ \A j \in 1 .. Len(es) : last'.msgs[j].about = es[j].filename]_vars

C6_Witness ==
  /\ last.response = "body"
  /\ last.body.status = "partial"
  /\ Len(last.body.errors) = 2
  /\ Len(last.body.results) = 2
  /\ last.body.results[1] # last.body.results[2]
  /\ Len(frequencyData) = 3

\* C7: for every reachable frequencyData, uploading a file with result R and
\* then the same file again with the same R leaves frequencyData as it was
\* after the first of the two uploads.
C7_Idempotent ==
  \A R \in DataSet :
    LET once == successUpdater(frequencyData, FileA.name, R)
    IN successUpdater(once, FileA.name, R) = once

\* C8: after a successful single-file upload with result R, frequencyData
\* has an entry with R's frequencies, magnitudes and dynamics, every earlier
\* entry is at its position with its data unchanged, and the list has grown
\* by 0 or 1.
C8_AddsWithoutDisturbing ==
  [][last'.outcome = "success" =>
       LET n == Len(frequencyData)
       IN /\ \E i \in 1 .. Len(frequencyData') :
               DataOf(frequencyData'[i]) = last'.body.data[1]
          /\ Len(frequencyData') \in {n, n + 1}
          /\ \A i \in 1 .. n :
               DataOf(frequencyData'[i]) = DataOf(frequencyData[i])]_vars

C8_Witness ==
  /\ last.outcome = "success"
  /\ Len(frequencyData) >= 2
  /\ DataOf(frequencyData[1]) # last.body.data[1]

\* C9: config changes at most once, from undefined to the data of the
\* /config response, and never afterwards; no upload starts while config is
\* undefined.
C9_ConfigSnapshot ==
  [][/\ config # Undefined => config' = config
     /\ config' # config =>
          /\ configPc = "pending"
          /\ \E result \in ConfigResults : config' = <<result.data>>
     /\ Len(req') > Len(req) => config # Undefined]_vars

C9_Witness ==
  /\ config # Undefined
  /\ configPc = "done"
  /\ Len(req) > 0

\* C10: no file larger than 100 MB is ever sent for analysis.
C10_NoOversizeUpload ==
  \A r \in 1 .. Len(req) : req[r].file.size <= MaxSizeBytes

StrictlyIncreasing(seq) == \A i \in 1 .. Len(seq) - 1 : seq[i] < seq[i + 1]

\* C12: every curve FrequencyChart plots for a valid dataset whose own
\* frequencies are strictly increasing has all its frequencies within
\* [20, 20000] and each one strictly greater than the one before it.
C12_CurveIncreasing ==
  LET valid == validData(frequencyData)
  IN (frequencyOption.kind = "option" /\ Len(valid) > 0) =>
       \A k \in 1 .. Len(valid) :
         StrictlyIncreasing(valid[k].frequencies) =>
           LET curve == frequencyOption.series[k].data
           IN /\ \A i \in 1 .. Len(curve) : curve[i][1] >= 20 /\ curve[i][1] <= 20000
              /\ \A i \in 1 .. Len(curve) - 1 : curve[i][1] < curve[i + 1][1]

C14_TimeAxis ==
  LET props == DynamicsProps(frequencyData)
  IN dynamicsOption.kind = "option" =>
       \A k \in 1 .. Len(props) :
         LET st == props[k].dynamics.short_term_dynamics
         IN /\ dynamicsOption.shortTermSeries[k].data = st.values
            /\ \A i \in 0 .. Len(st.values) - 1 :
                 /\ i + 1 <= Len(dynamicsOption.timeAxis)
                 /\ dynamicsOption.timeAxis[i + 1] * 100 = i * st.frame_duration_ms

\* C15: no two entries of frequencyData have the same name.
C15_UniqueNames ==
  \A i, j \in 1 .. Len(frequencyData) :
    i # j => frequencyData[i].name # frequencyData[j].name

\* The names generateFileName is tried on: plain, numbered once and twice.
NameUniverse == {<<"a">>, <<"a", 1>>, <<"a", 2>>, <<"a", 1, 1>>, <<"b">>}

\* C16: generateFileName(baseName, existingNames) returns a name that is not
\* in existingNames: baseName itself when that is free, and otherwise the
\* base name (trailing number stripped) numbered with the smallest k >= 1
\* whose name is free.
C16_GenerateFileName ==
  \A baseName \in NameUniverse, extra \in SUBSET NameUniverse :
    LET existingNames == Names(frequencyData) \cup extra
        result == generateFileName(baseName, existingNames)
        free == {k \in 1 .. Cardinality(existingNames) + 1 :
                   Append(stripNumber(baseName), k) \notin existingNames}
        smallest == CHOOSE k \in free : \A m \in free : k <= m
    IN /\ result \notin existingNames
       /\ baseName \notin existingNames => result = baseName
       /\ baseName \in existingNames => result = Append(stripNumber(baseName), smallest)

\* An upload has been given a numbered name by generateFileName.
C16_Witness ==
  \E i \in 1 .. Len(frequencyData) :
    /\ Len(frequencyData[i].name) > 1
    /\ \E j \in 1 .. i - 1 : frequencyData[j].name = stripNumber(frequencyData[i].name)

\* C17: an invocation that ends calls onSuccess and onError at most once each
\* and never both; it calls onSuccess only when the response was a body whose
\* status is neither 'error' nor 'partial' and an entry with the body's data
\* was appended to frequencyData or put in the place of one; a cancelled
\* invocation and a 'partial' response call neither.
C17_OneOutcome ==
  [][last'.outcome # "none" =>
       /\ last'.onSuccess \in {0, 1}
       /\ last'.onError \in {0, 1}
       /\ last'.onSuccess + last'.onError <= 1
       /\ last'.onSuccess = 1 =>
            /\ last'.response = "body"
            /\ last'.body.status \notin {"error", "partial"}
            /\ \/ /\ Len(frequencyData') = Len(frequencyData) + 1
                  /\ SubSeq(frequencyData', 1, Len(frequencyData)) = frequencyData
                  /\ DataOf(frequencyData'[Len(frequencyData')]) = last'.body.data[1]
               \/ \E i \in 1 .. Len(frequencyData) :
                    frequencyData' =
                      [frequencyData EXCEPT ![i] = Entry(last'.file.name, last'.body.data[1])]
       /\ (last'.outcome = "aborted" \/ last'.body.status = "partial") =>
            (last'.onSuccess = 0 /\ last'.onError = 0)]_vars

\* A success, with one entry held, in a run that had a cancellation.
C17_Witness ==
  /\ last.outcome = "success"
  /\ last.onSuccess = 1
  /\ Len(frequencyData) = 1
  /\ cancelled # {}

\* C18: every invocation that starts eventually ends, whatever its outcome,
\* and whenever no invocation is in flight analyzing is false, progress is 0
\* and abortControllerRef is null.
C18_Resets ==
  /\ [](Len(req) = 0 => (~analyzing /\ progress = 0 /\ abortControllerRef = Null))
  /\ (watched # Null) ~> (watched = Null)

\* The last of several invocations has ended after a cancellation.
C18_Witness ==
  /\ Len(req) = 0
  /\ last.outcome \notin {"none", "aborted"}
  /\ cancelled # {}
  /\ Len(frequencyData) > 0

\* C19: whenever at least one analysis request is in flight, analyzing is
\* true.
C19_BusyTruthful == Len(req) > 0 => analyzing

\* C20 as stated: at most one analysis request is in flight at any time.
C20_OneInFlight == Len(req) <= 1

\* C20 amended: invocations are started only by a drop made while analyzing
\* is false and config is loaded, and one drop starts at most
\* config.audio.max_files of them.
C20_StartsWhenIdle ==
  [][Len(req') > Len(req) =>
       /\ ~analyzing
       /\ config # Undefined
       /\ Len(req') - Len(req) <= config[1].audio.max_files]_vars

\* One drop has started two invocations, both with their fetch pending.
C20_Witness ==
  /\ Len(req) = 2
  /\ analyzing
  /\ last = NoLast
  /\ \A r \in 1 .. Len(req) : req[r].pc = "fetch"
  /\ Len(frequencyData) = 0
  /\ cancelled = {}

\* C21: right after handleClear frequencyData is empty, and the end of an
\* invocation that was in flight when handleClear ran adds no entry to
\* frequencyData.
C21_ClearIsFinal ==
  [][/\ handleClear => frequencyData' = <<>>
     /\ (stale > 0 /\ stale' = stale - 1 /\ ~Cleared) =>
          Len(frequencyData') <= Len(frequencyData)]_vars

\* C22: whenever frequencyData is not empty, the header of the dynamics card
\* lists exactly one fast overall range for each entry that has dynamics, in
\* list order, an entry whose fast overall range is 0 dB included.
C22_SummaryCoversAll ==
  LET props == DynamicsProps(frequencyData)
  IN frequencyData # <<>> =>
       dynamicsExtra(frequencyData) =
         <<[k \in 1 .. Len(props) |->
              dBToFixed1(props[k].dynamics.overall_dynamics.fast.range)]>>

\* C23: the frequency chart shows exactly the well-formed datasets of
\* frequencyData: one series and one legend entry for each dataset whose
\* frequencies and magnitudes are non-empty and of equal length, in list
\* order, and nothing for any other dataset.
C23_OnlyWellFormed ==
  LET valid == validData(frequencyData)
  IN /\ Len(frequencyOption.series) = Len(valid)
     /\ \A k \in 1 .. Len(valid) : frequencyOption.series[k].name = valid[k].name
     /\ frequencyOption.legend = [k \in 1 .. Len(valid) |-> valid[k].name]

====
